---- MODULE Spec2Model ----
(***************************************************************************)
(* A model of PqcResearchVisualizer.py: the magnitude parser parse_value,  *)
(* the BenchmarkDotNet log reader parse_benchmark_log, the artifact size   *)
(* reader parse_artifact_sizes and the orchestrator main.                  *)
(*                                                                         *)
(* Text is a sequence of one-character strings ("mu" stands for the micro  *)
(* sign).  A Python exception is an outcome [ok |-> FALSE, exc |-> name].  *)
(* A float is kept exactly, as mant * 10^e10 * 1024^e1024 with mant free   *)
(* of trailing zeros: binary rounding is not modelled.                     *)
(***************************************************************************)
EXTENDS Integers, Sequences, FiniteSets, TLC

VARIABLES
    pc,        \* which call is in progress / finished
    val,       \* parse_value: the argument
    pv,        \* parse_value: the outcome
    file,      \* parse_benchmark_log: the file at file_path
    res,       \* parse_benchmark_log: the outcome
    afile,     \* parse_artifact_sizes: the file at file_path
    ares,      \* parse_artifact_sizes: the outcome
    inputs,    \* main: the three files under RESULTS_DIR
    df_kem,    \* main: local df_kem
    df_sig,    \* main: local df_sig
    df_art,    \* main: local df_art
    charts,    \* main: the images written so far, in order
    console    \* main: the lines printed so far, in order

vars == <<pc, val, pv, file, res, afile, ares, inputs, df_kem, df_sig, df_art, charts, console>>

None == [none |-> TRUE]

----------------------------------------------------------------------------
(* Bounds of the explored inputs *)

MaxNumLen == 3
MaxLines == 3
MaxSegs == 2
MaxPreLines == 1

----------------------------------------------------------------------------
(* Characters and Python's str operations *)

Digits == <<"0", "1", "2", "3", "4", "5", "6", "7", "8", "9">>

DigitSet == {Digits[i] : i \in 1..10}

Letters ==
    {"a","b","c","d","e","f","g","h","i","j","k","l","m","n","o","p","q","r",
     "s","t","u","v","w","x","y","z","A","B","C","D","E","F","G","H","I","J",
     "K","L","M","N","O","P","Q","R","S","T","U","V","W","X","Y","Z","mu"}

Whitespace == {" ", "\n", "\t", "\r"}

SeqsUpTo(S, n) == UNION {[1..k -> S] : k \in 0..n}

Tail0(s, i) == SubSeq(s, i, Len(s))

\* F applied to the value of e, which is computed once
With(e, F(_)) == CHOOSE r \in {F(v) : v \in {e}} : TRUE

IsPrefixAt(p, s, i) ==
    /\ i >= 1
    /\ i + Len(p) - 1 <= Len(s)
    /\ \A k \in 1..Len(p) : s[i + k - 1] = p[k]

\* `p in s`
Contains(s, p) == \E i \in 1..(Len(s) + 1) : IsPrefixAt(p, s, i)

\* s.startswith(p)
StartsWith(s, p) == IsPrefixAt(p, s, 1)

\* the first index >= i whose character is not in S (Len(s)+1 when none)
SkipSet(s, i, S) ==
    CHOOSE j \in i..(Len(s) + 1) :
        /\ \A k \in i..(j - 1) : s[k] \in S
        /\ (j = Len(s) + 1 \/ s[j] \notin S)

\* the last index <= i whose character is not in S (0 when none)
SkipSetBack(s, i, S) ==
    CHOOSE j \in 0..i :
        /\ \A k \in (j + 1)..i : s[k] \in S
        /\ (j = 0 \/ s[j] \notin S)

\* s.strip(chars)
StripSet(s, S) ==
    LET a == SkipSet(s, 1, S)
        b == SkipSetBack(s, Len(s), S)
    IN  IF a > b THEN <<>> ELSE SubSeq(s, a, b)

\* s.strip()
Strip(s) == StripSet(s, Whitespace)

\* s.replace(c, '')
Remove(s, c) == SelectSeq(s, LAMBDA x : x # c)

\* s[from:].split(c), from a 1-based index
RECURSIVE SplitFrom(_, _, _)
SplitFrom(s, c, from) ==
    LET stops == {k \in from..Len(s) : s[k] = c}
    IN  IF stops = {} THEN <<Tail0(s, from)>>
        ELSE With(CHOOSE j \in stops : \A k \in stops : j <= k,
                  LAMBDA j : <<SubSeq(s, from, j - 1)>> \o SplitFrom(s, c, j + 1))

\* s.split(c)
Split(s, c) == With(s, LAMBDA v : SplitFrom(v, c, 1))

\* s.rsplit(c, 1)
RSplit1(s, c) ==
    IF \A k \in 1..Len(s) : s[k] # c THEN <<s>>
    ELSE LET i == CHOOSE j \in 1..Len(s) : s[j] = c /\ \A k \in (j + 1)..Len(s) : s[k] # c
         IN  <<SubSeq(s, 1, i - 1), Tail0(s, i + 1)>>

\* '\n'.join(ls)
RECURSIVE JoinLines(_)
JoinLines(ls) ==
    IF ls = <<>> THEN <<>>
    ELSE IF Len(ls) = 1 THEN ls[1]
    ELSE ls[1] \o <<"\n">> \o JoinLines(Tail(ls))

----------------------------------------------------------------------------
(* Exact numbers: mant * 10^e10 * 1024^e1024 *)

Zero == [mant |-> 0, e10 |-> 0, e1024 |-> 0]

RECURSIVE Norm(_)
Norm(x) ==
    IF x.mant = 0 THEN Zero
    ELSE IF x.mant % 10 = 0
         THEN Norm([mant |-> x.mant \div 10, e10 |-> x.e10 + 1, e1024 |-> x.e1024])
         ELSE x

RECURSIVE Pow(_, _)
Pow(b, n) == IF n <= 0 THEN 1 ELSE b * Pow(b, n - 1)

\* x * 10^k
Shift10(x, k) == Norm([x EXCEPT !.e10 = @ + k])

\* x * 1024^k
Shift1024(x, k) == Norm([x EXCEPT !.e1024 = @ + k])

DigitOf(c) == (CHOOSE d \in 1..10 : Digits[d] = c) - 1

RECURSIVE DigitsToInt(_)
DigitsToInt(s) ==
    IF s = <<>> THEN 0
    ELSE 10 * DigitsToInt(SubSeq(s, 1, Len(s) - 1)) + DigitOf(s[Len(s)])

\* int(s) / float(s) of a run of digits and dots: ValueError unless the run
\* holds at least one digit and at most one dot
float(s) ==
    LET dots == {k \in 1..Len(s) : s[k] = "."}
        digs == Remove(s, ".")
    IN  IF Cardinality(dots) > 1 \/ digs = <<>>
        THEN [ok |-> FALSE, exc |-> "ValueError", v |-> Zero]
        ELSE LET frac == IF dots = {} THEN 0
                         ELSE Len(s) - (CHOOSE k \in dots : TRUE)
             IN  [ok |-> TRUE, exc |-> "",
                  v |-> Norm([mant |-> DigitsToInt(digs), e10 |-> 0 - frac, e1024 |-> 0])]

----------------------------------------------------------------------------
(* parse_value *)

ns == <<"n", "s">>
us == <<"u", "s">>
mus == <<"mu", "s">>
ms == <<"m", "s">>
sec == <<"s">>
UB == <<"B">>
KB == <<"K", "B">>
MB == <<"M", "B">>

\* re.match(r'([\d\.]+)\s*([a-zA-Zmu]+)', val): the groups, or no match
ReMatchValue(v) ==
    LET a == SkipSet(v, 1, DigitSet \cup {"."})
        b == SkipSet(v, a, Whitespace)
        c == SkipSet(v, b, Letters)
    IN  IF a = 1 \/ c = b
        THEN [matched |-> FALSE, g1 |-> <<>>, g2 |-> <<>>]
        ELSE [matched |-> TRUE, g1 |-> SubSeq(v, 1, a - 1), g2 |-> SubSeq(v, b, c - 1)]

\* a plausible slip: decimal kilobytes
ConvertUnitDecimalKB(num, unit) ==
    IF unit = ns THEN Shift10(num, -3)
    ELSE IF unit \in {mus, us} THEN num
    ELSE IF unit = ms THEN Shift10(num, 3)
    ELSE IF unit = sec THEN Shift10(num, 6)
    ELSE IF unit = UB THEN num
    ELSE IF unit = KB THEN Shift10(num, 3)
    ELSE IF unit = MB THEN Shift1024(num, 2)
    ELSE num

\* the unit table
ConvertUnit(num, unit) ==
    IF unit = ns THEN Shift10(num, -3)
    ELSE IF unit \in {mus, us} THEN num
    ELSE IF unit = ms THEN Shift10(num, 3)
    ELSE IF unit = sec THEN Shift10(num, 6)
    ELSE IF unit = UB THEN num
    ELSE IF unit = KB THEN Shift1024(num, 1)
    ELSE IF unit = MB THEN Shift1024(num, 2)
    ELSE num

parse_value(v0) ==
    IF v0 = <<>> \/ v0 = <<"-">> THEN [ok |-> TRUE, exc |-> "", v |-> Zero]
    ELSE With(ReMatchValue(Remove(v0, ",")), LAMBDA m :
             IF ~m.matched THEN [ok |-> TRUE, exc |-> "", v |-> Zero]
             ELSE With(float(m.g1), LAMBDA num :
                      IF ~num.ok THEN num
                      ELSE [ok |-> TRUE, exc |-> "", v |-> ConvertUnit(num.v, m.g2)]))

----------------------------------------------------------------------------
(* parse_benchmark_log *)

Method == <<"M", "e", "t", "h", "o", "d">>
Mean == <<"M", "e", "a", "n">>
Allocated == <<"A", "l", "l", "o", "c", "a", "t", "e", "d">>

\* pd.DataFrame(): no rows, no columns
EmptyFrame == [cols |-> {}, hasMean |-> FALSE, hasAlloc |-> FALSE, rows |-> <<>>]

\* DataFrame.empty
IsEmpty(df) == df.rows = <<>> \/ df.cols = {}

\* whether r'\|\s*Method\s*\|' matches at index i
HeaderAt(s, i) ==
    /\ s[i] = "|"
    /\ LET a == SkipSet(s, i + 1, Whitespace)
       IN  /\ IsPrefixAt(Method, s, a)
           /\ LET b == SkipSet(s, a + Len(Method), Whitespace)
              IN  b <= Len(s) /\ s[b] = "|"

\* re.search(r'\|\s*Method\s*\|.*', content): match.start(), 0 for no match
ReSearchHeader(s) ==
    IF \E i \in 1..Len(s) : HeaderAt(s, i)
    THEN CHOOSE i \in 1..Len(s) : HeaderAt(s, i) /\ \A k \in 1..(i - 1) : ~HeaderAt(s, k)
    ELSE 0

Dashes == <<"-", "-", "-">>

\* a plausible slip: the loop without its break
RECURSIVE CollectNoBreak(_, _, _)
CollectNoBreak(lines, i, picked) ==
    IF i > Len(lines) THEN picked
    ELSE LET stripped == Strip(lines[i])
         IN  IF stripped = <<>> THEN CollectNoBreak(lines, i + 1, picked)
             ELSE IF StartsWith(stripped, <<"|">>)
                  THEN IF Contains(stripped, Dashes)
                       THEN CollectNoBreak(lines, i + 1, picked)
                       ELSE CollectNoBreak(lines, i + 1, Append(picked, i))
             ELSE CollectNoBreak(lines, i + 1, picked)

\* the loop over lines: the indices of the lines appended to table_lines,
\* from line i on, `picked` being those appended so far
RECURSIVE Collect(_, _, _)
Collect(lines, i, picked) ==
    IF i > Len(lines) THEN picked
    ELSE LET stripped == Strip(lines[i])
         IN  IF stripped = <<>> THEN Collect(lines, i + 1, picked)
             ELSE IF StartsWith(stripped, <<"|">>)
                  THEN IF Contains(stripped, Dashes)
                       THEN Collect(lines, i + 1, picked)
                       ELSE Collect(lines, i + 1, Append(picked, i))
             ELSE IF Len(picked) > 0 THEN picked
             ELSE Collect(lines, i + 1, picked)

\* [x.strip() for x in line.strip('|').split('|')]
Cells(line) ==
    LET parts == Split(StripSet(line, {"|"}), "|")
    IN  [k \in 1..Len(parts) |-> Strip(parts[k])]

\* dict(zip(headers, values)): a repeated key keeps its last value
ZipDict(headers, values) ==
    LET n == IF Len(headers) < Len(values) THEN Len(headers) ELSE Len(values)
    IN  [h \in {headers[j] : j \in 1..n} |->
            values[CHOOSE j \in 1..n :
                      headers[j] = h /\ \A k \in (j + 1)..n : headers[k] # h]]

\* a plausible slip: rows shorter than the header are kept too
RECURSIVE ParseRowsAtMost(_, _, _)
ParseRowsAtMost(headers, table_lines, i) ==
    IF i > Len(table_lines) THEN <<>>
    ELSE LET values == Cells(table_lines[i])
         IN  (IF Len(values) <= Len(headers)
              THEN <<ZipDict(headers, values)>> ELSE <<>>)
             \o ParseRowsAtMost(headers, table_lines, i + 1)

\* the loop over table_lines[1:], from (1-based) line i on
RECURSIVE ParseRows(_, _, _)
ParseRows(headers, table_lines, i) ==
    IF i > Len(table_lines) THEN <<>>
    ELSE LET values == Cells(table_lines[i])
         IN  (IF Len(values) = Len(headers)
              THEN <<ZipDict(headers, values)>> ELSE <<>>)
             \o ParseRows(headers, table_lines, i + 1)

\* a plausible slip: the apostrophes are kept
CleanMethodKeepQuotes(x) ==
    LET parts == Split(x, ".") IN parts[Len(parts)]

\* x.split('.')[-1].replace("'", "")
CleanMethod(x) ==
    LET parts == Split(x, ".") IN Remove(parts[Len(parts)], "'")

\* df[col].apply(parse_value): the first exception raised, if any
ApplyParseValue(data, col) ==
    LET out == [i \in 1..Len(data) |-> parse_value(data[i][col])]
        bad == {i \in 1..Len(data) : ~out[i].ok}
    IN  IF bad = {} THEN [ok |-> TRUE, exc |-> "", v |-> [i \in 1..Len(data) |-> out[i].v]]
        ELSE [ok |-> FALSE, exc |-> out[CHOOSE i \in bad : \A k \in bad : i <= k].exc, v |-> <<>>]

\* the conversion of the extracted rows to the returned frame
Convert(data) ==
    LET cols == IF data = <<>> THEN {} ELSE DOMAIN data[1]
        hasMean == Mean \in cols
        hasAlloc == Allocated \in cols
        mean == IF hasMean THEN ApplyParseValue(data, Mean)
                ELSE [ok |-> TRUE, exc |-> "", v |-> [i \in 1..Len(data) |-> None]]
        alloc == IF hasAlloc THEN ApplyParseValue(data, Allocated)
                 ELSE [ok |-> TRUE, exc |-> "", v |-> [i \in 1..Len(data) |-> None]]
        label == [i \in 1..Len(data) |-> CleanMethod(data[i][Method])]
        split == [i \in 1..Len(data) |-> RSplit1(label[i], " ")]
    IN  IF ~mean.ok THEN [ok |-> FALSE, exc |-> mean.exc, df |-> None]
        ELSE IF ~alloc.ok THEN [ok |-> FALSE, exc |-> alloc.exc, df |-> None]
        ELSE IF Method \notin cols THEN [ok |-> FALSE, exc |-> "KeyError", df |-> None]
        ELSE IF \E i \in 1..Len(data) : Len(split[i]) < 2
             THEN [ok |-> FALSE, exc |-> "IndexError", df |-> None]
        ELSE [ok |-> TRUE, exc |-> "",
              df |-> [cols |-> cols,
                      hasMean |-> hasMean,
                      hasAlloc |-> hasAlloc,
                      rows |-> [i \in 1..Len(data) |->
                                  [cells |-> [data[i] EXCEPT ![Method] = label[i]],
                                   Mean_us |-> mean.v[i],
                                   Allocated_B |-> alloc.v[i],
                                   Algorithm |-> split[i][1],
                                   Operation |-> split[i][2]]]]]

\* The outcome of parse_benchmark_log(file_path), with what the call computed
\* on the way: the split lines, the indices appended to table_lines, the
\* header cells and the extracted rows.
parse_benchmark_log(f) ==
    LET base == [ok |-> TRUE, exc |-> "", warned |-> FALSE, start |-> 0,
                 lines |-> <<>>, picked |-> <<>>, table_lines |-> <<>>,
                 headers |-> <<>>, data |-> <<>>,
                 df |-> EmptyFrame]
    IN  IF ~f.exists THEN [base EXCEPT !.warned = TRUE]
        ELSE With(ReSearchHeader(f.content), LAMBDA start :
             IF start = 0 THEN base
             ELSE With(Split(Tail0(f.content, start), "\n"), LAMBDA lines :
                  With(Collect(lines, 1, <<>>), LAMBDA picked :
                  With([k \in 1..Len(picked) |-> Strip(lines[picked[k]])], LAMBDA table_lines :
                  With([base EXCEPT !.start = start, !.lines = lines,
                                    !.picked = picked, !.table_lines = table_lines],
                       LAMBDA scanned :
                  IF table_lines = <<>>
                  THEN [scanned EXCEPT !.ok = FALSE, !.exc = "IndexError", !.df = None]
                  ELSE With(Cells(table_lines[1]), LAMBDA headers :
                       With(ParseRows(headers, table_lines, 2), LAMBDA data :
                       With(Convert(data), LAMBDA conv :
                           [scanned EXCEPT !.headers = headers, !.data = data,
                                           !.ok = conv.ok, !.exc = conv.exc,
                                           !.df = conv.df]))))))))

----------------------------------------------------------------------------
(* parse_artifact_sizes *)

Pub == <<"P", "u", "b">>
Priv == <<"P", "r", "i", "v">>
Sig == <<"S", "i", "g">>
Cipher == <<"C", "i", "p", "h", "e", "r">>
PublicKey == <<"P", "u", "b", "l", "i", "c", " ", "K", "e", "y">>
PrivateKey == <<"P", "r", "i", "v", "a", "t", "e", " ", "K", "e", "y">>
Signature == <<"S", "i", "g", "n", "a", "t", "u", "r", "e">>
Ciphertext == <<"C", "i", "p", "h", "e", "r", "t", "e", "x", "t">>

\* re.sub(r'\[.*?\]\s*', '', s), from index i on
RECURSIVE RemoveTagsFrom(_, _)
RemoveTagsFrom(s, i) ==
    IF i > Len(s) THEN <<>>
    ELSE LET ends == {j \in (i + 1)..Len(s) :
                         s[j] = "]" /\ \A k \in (i + 1)..(j - 1) : s[k] \notin {"]", "\n"}}
         IN  IF s[i] = "[" /\ ends # {}
             THEN With(SkipSet(s, (CHOOSE j \in ends : TRUE) + 1, Whitespace),
                       LAMBDA next : RemoveTagsFrom(s, next))
             ELSE <<s[i]>> \o RemoveTagsFrom(s, i + 1)

\* re.sub(r'\[.*?\]\s*', '', s)
RemoveTags(s) == With(s, LAMBDA v : RemoveTagsFrom(v, 1))

\* re.search(r'(\d+)', v): group 1, or <<>> for no match
FirstDigits(v) ==
    IF \A k \in 1..Len(v) : v[k] \notin DigitSet THEN <<>>
    ELSE LET a == CHOOSE k \in 1..Len(v) :
                      v[k] \in DigitSet /\ \A i \in 1..(k - 1) : v[i] \notin DigitSet
         IN  SubSeq(v, a, SkipSet(v, a, DigitSet) - 1)

\* a plausible slip: the tag compared for equality instead of containment
NormalizeTypeExact(t) ==
    IF t = Pub THEN PublicKey
    ELSE IF t = Priv THEN PrivateKey
    ELSE IF t = Sig THEN Signature
    ELSE IF t = Cipher THEN Ciphertext
    ELSE t

\* the normalisation of a type name
NormalizeType(t) ==
    IF Contains(t, Pub) THEN PublicKey
    ELSE IF Contains(t, Priv) THEN PrivateKey
    ELSE IF Contains(t, Sig) THEN Signature
    ELSE IF Contains(t, Cipher) THEN Ciphertext
    ELSE t

\* the body of `for p in parts[1:]`: the records appended for segment p
ParseSegment(algo_name, p) ==
    IF ~Contains(p, <<":">>) THEN [ok |-> TRUE, exc |-> "", data |-> <<>>]
    ELSE With(Split(p, ":"), LAMBDA kv :
             IF Len(kv) # 2 THEN [ok |-> FALSE, exc |-> "ValueError", data |-> <<>>]
             ELSE With(FirstDigits(kv[2]), LAMBDA digits :
                      IF digits = <<>> THEN [ok |-> TRUE, exc |-> "", data |-> <<>>]
                      ELSE [ok |-> TRUE, exc |-> "",
                            data |-> <<[Algorithm |-> algo_name,
                                        Type |-> NormalizeType(Strip(kv[1])),
                                        Size |-> DigitsToInt(digits)]>>]))

\* the loop over parts[1:], from segment i on
RECURSIVE ParseSegments(_, _, _)
ParseSegments(algo_name, parts, i) ==
    IF i > Len(parts) THEN [ok |-> TRUE, exc |-> "", data |-> <<>>]
    ELSE With(ParseSegment(algo_name, parts[i]), LAMBDA one :
             IF ~one.ok THEN one
             ELSE With(ParseSegments(algo_name, parts, i + 1), LAMBDA rest :
                      [rest EXCEPT !.data = one.data \o @]))

\* the body of `for line in f`
ParseArtifactLine(line) ==
    IF Strip(line) = <<>> \/ StartsWith(line, <<"-">>)
    THEN [ok |-> TRUE, exc |-> "", data |-> <<>>]
    ELSE With(Split(Strip(RemoveTags(line)), "|"), LAMBDA parts :
             ParseSegments(Strip(parts[1]), parts, 2))

\* the loop over the file's lines, from line i on; a line read from the file
\* ends with its newline
RECURSIVE ParseArtifactLines(_, _)
ParseArtifactLines(lines, i) ==
    IF i > Len(lines) THEN [ok |-> TRUE, exc |-> "", data |-> <<>>]
    ELSE With(ParseArtifactLine(lines[i] \o <<"\n">>), LAMBDA one :
             IF ~one.ok THEN one
             ELSE With(ParseArtifactLines(lines, i + 1), LAMBDA rest :
                      [rest EXCEPT !.data = one.data \o @]))

parse_artifact_sizes(f) ==
    IF ~f.exists THEN [ok |-> TRUE, exc |-> "", warned |-> TRUE, data |-> <<>>]
    ELSE LET r == ParseArtifactLines(f.lines, 1)
         IN  [ok |-> r.ok, exc |-> r.exc, warned |-> FALSE, data |-> r.data]

----------------------------------------------------------------------------
(* plot_bar and main *)

\* x > 10 for an exact number x
GreaterThan10(x) ==
    /\ x.mant > 0
    /\ IF x.e10 >= 0
       THEN x.e1024 >= 1 \/ x.e10 >= 2 \/ x.mant * Pow(10, x.e10) > 10
       ELSE x.mant > Pow(10, 1 - x.e10) \div Pow(1024, x.e1024)

\* pd.DataFrame(data) of the artifact records
ArtifactFrame(data) ==
    [cols |-> IF data = <<>> THEN {} ELSE {"Algorithm", "Type", "Size (Bytes)"},
     rows |-> data]

\* the derived and artifact columns a frame holds
ColumnsOf(df) ==
    IF "hasMean" \in DOMAIN df
    THEN (IF df.rows = <<>> THEN {} ELSE {"Method", "Algorithm", "Operation"})
         \cup (IF df.hasMean THEN {"Mean_us"} ELSE {})
         \cup (IF df.hasAlloc THEN {"Allocated_B"} ELSE {})
    ELSE df.cols

\* df[df['Allocated_B'] > 10]
FilterAllocated(df) ==
    LET keep == {i \in 1..Len(df.rows) : GreaterThan10(df.rows[i].Allocated_B)}
    IN  [df EXCEPT !.rows =
            [m \in 1..Cardinality(keep) |->
                df.rows[CHOOSE i \in keep : Cardinality({k \in keep : k <= i}) = m]]]

\* plot_bar: the image written and the line printed, or the exception of
\* sns.barplot when the frame lacks a column it is asked to draw.  Whether
\* sns.barplot draws a frame without rows depends on the seaborn release:
\* `drawn` is that outcome.
plot_bar(df, x, y, hue, filename, log_scale, show_mtu, drawn) ==
    IF ~({x, y, hue} \subseteq ColumnsOf(df)) \/ (df.rows = <<>> /\ ~drawn)
    THEN [ok |-> FALSE, exc |-> "ValueError", chart |-> None, line |-> ""]
    ELSE [ok |-> TRUE, exc |-> "",
          chart |-> [filename |-> filename, x |-> x, y |-> y, hue |-> hue,
                     rows |-> df.rows, log_scale |-> log_scale, show_mtu |-> show_mtu],
          line |-> "Generated"]

\* a plausible slip: the run is abandoned only when both tables are empty
MissingDataBoth(kem, sig) == IsEmpty(kem) /\ IsEmpty(sig)

\* df_kem.empty or df_sig.empty
MissingData(kem, sig) == IsEmpty(kem) \/ IsEmpty(sig)

ErrorLine == <<"Error: Could not parse benchmark logs. Check file paths.", "">>

Warning(name) == <<"Warning: File not found", name>>

\* df_kem = parse_benchmark_log(kem_log)
LoadKem ==
    /\ pc = "main_start"
    /\ LET r == parse_benchmark_log(inputs.kem)
       IN  /\ df_kem' = r.df
           /\ console' = IF r.warned THEN Append(console, Warning("kem_log")) ELSE console
           /\ pc' = IF r.ok THEN "load_sig" ELSE "crashed"
    /\ UNCHANGED <<val, pv, file, res, afile, ares, inputs, df_sig, df_art, charts>>

\* df_sig = parse_benchmark_log(sig_log)
LoadSig ==
    /\ pc = "load_sig"
    /\ LET r == parse_benchmark_log(inputs.sig)
       IN  /\ df_sig' = r.df
           /\ console' = IF r.warned THEN Append(console, Warning("sig_log")) ELSE console
           /\ pc' = IF r.ok THEN "load_art" ELSE "crashed"
    /\ UNCHANGED <<val, pv, file, res, afile, ares, inputs, df_kem, df_art, charts>>

\* df_art = parse_artifact_sizes(art_log)
LoadArt ==
    /\ pc = "load_art"
    /\ LET r == parse_artifact_sizes(inputs.art)
       IN  /\ df_art' = IF r.ok THEN ArtifactFrame(r.data) ELSE None
           /\ console' = IF r.warned THEN Append(console, Warning("art_log")) ELSE console
           /\ pc' = IF r.ok THEN "check" ELSE "crashed"
    /\ UNCHANGED <<val, pv, file, res, afile, ares, inputs, df_kem, df_sig, charts>>

\* if df_kem.empty or df_sig.empty: print the error and return
CheckTables ==
    /\ pc = "check"
    /\ IF MissingData(df_kem, df_sig)
       THEN /\ console' = Append(console, ErrorLine)
            /\ pc' = "returned"
       ELSE /\ console' = console
            /\ pc' = "kem_time"
    /\ UNCHANGED <<val, pv, file, res, afile, ares, inputs, df_kem, df_sig, df_art, charts>>

\* one call of plot_bar from main, then on to `next`
Plot(at, df, x, y, filename, log_scale, show_mtu, next) ==
    /\ pc = at
    /\ \E drawn \in BOOLEAN :
          LET r == plot_bar(df, x, y, "Algorithm", filename, log_scale, show_mtu, drawn)
          IN  IF r.ok
              THEN /\ charts' = Append(charts, r.chart)
                   /\ console' = Append(console, <<r.line, filename>>)
                   /\ pc' = next
              ELSE /\ charts' = charts
                   /\ console' = console
                   /\ pc' = "crashed"
    /\ UNCHANGED <<val, pv, file, res, afile, ares, inputs, df_kem, df_sig, df_art>>

PlotKemTime ==
    Plot("kem_time", df_kem, "Operation", "Mean_us", "kem_execution_time.png", TRUE, FALSE, "kem_memory")

PlotKemMemory ==
    Plot("kem_memory", df_kem, "Operation", "Allocated_B", "kem_memory.png", FALSE, FALSE, "sig_time")

PlotSigTime ==
    Plot("sig_time", df_sig, "Operation", "Mean_us", "sig_execution_time.png", TRUE, FALSE, "sig_memory")

\* df_sig_mem = df_sig[df_sig['Allocated_B'] > 10], then its chart
PlotSigMemory ==
    /\ pc = "sig_memory"
    /\ IF "Allocated_B" \in ColumnsOf(df_sig)
       THEN Plot("sig_memory", FilterAllocated(df_sig), "Operation", "Allocated_B",
                 "sig_memory.png", FALSE, FALSE, "artifact")
       ELSE /\ pc' = "crashed"
            /\ UNCHANGED <<val, pv, file, res, afile, ares, inputs, df_kem, df_sig, df_art,
                           charts, console>>

\* if not df_art.empty: the artifact chart; then main returns
PlotArtifact ==
    /\ pc = "artifact"
    /\ IF ~IsEmpty(df_art)
       THEN Plot("artifact", df_art, "Type", "Size (Bytes)", "artifact_sizes.png",
                 TRUE, TRUE, "returned")
       ELSE /\ pc' = "returned"
            /\ UNCHANGED <<val, pv, file, res, afile, ares, inputs, df_kem, df_sig, df_art,
                           charts, console>>

----------------------------------------------------------------------------
(* Specification SpecValue: parse_value applied to a bounded set of strings *)

NumAlphabet == {"0", "1", "2", "5", ".", ","}

UnitTokens == {<<>>, ns, us, mus, ms, sec, UB, KB, MB, <<"k", "b">>}

ValInputs ==
    {pre \o body \o sep \o unit :
        pre \in {<<>>, <<"-">>},
        body \in SeqsUpTo(NumAlphabet, MaxNumLen),
        sep \in {<<>>, <<" ">>},
        unit \in UnitTokens}

InitValue ==
    /\ pc = "value_start"
    /\ val \in ValInputs
    /\ pv = None
    /\ file = None /\ res = None /\ afile = None /\ ares = None
    /\ inputs = None /\ df_kem = None /\ df_sig = None /\ df_art = None
    /\ charts = <<>> /\ console = <<>>

CallParseValue ==
    /\ pc = "value_start"
    /\ pv' = parse_value(val)
    /\ pc' = "value_done"
    /\ UNCHANGED <<val, file, res, afile, ares, inputs, df_kem, df_sig, df_art, charts, console>>

NextValue == CallParseValue

SpecValue == InitValue /\ [][NextValue]_vars

(* What the claims say of a magnitude string, read off the string itself *)

\* a run of digits and dots that is a decimal number
IsDecimal(n) ==
    /\ \A k \in 1..Len(n) : n[k] \in DigitSet \cup {"."}
    /\ Cardinality({k \in 1..Len(n) : n[k] = "."}) <= 1
    /\ \E k \in 1..Len(n) : n[k] \in DigitSet

IsUnitToken(u) == u # <<>> /\ \A k \in 1..Len(u) : u[k] \in Letters

RECURSIVE PlaceSum(_, _)
PlaceSum(d, k) ==
    IF k > Len(d) THEN 0
    ELSE DigitOf(d[k]) * Pow(10, Len(d) - k) + PlaceSum(d, k + 1)

\* the number a decimal text stands for
DecimalOf(n) ==
    LET d == [k \in 1..Cardinality({j \in 1..Len(n) : n[j] \in DigitSet}) |->
                 n[CHOOSE j \in 1..Len(n) :
                     /\ n[j] \in DigitSet
                     /\ Cardinality({i \in 1..j : n[i] \in DigitSet}) = k]]
        fr == Cardinality({j \in 1..Len(n) :
                  n[j] \in DigitSet /\ \E i \in 1..(j - 1) : n[i] = "."})
    IN  Norm([mant |-> PlaceSum(d, 1), e10 |-> 0 - fr, e1024 |-> 0])

\* the unit table of the specification
Expected(x, u) ==
    CASE u = ns -> Shift10(x, -3)
      [] u = us -> x
      [] u = mus -> x
      [] u = ms -> Shift10(x, 3)
      [] u = sec -> Shift10(x, 6)
      [] u = UB -> x
      [] u = KB -> Shift1024(x, 1)
      [] u = MB -> Shift1024(Shift1024(x, 1), 1)
      [] OTHER -> x

\* val is '<number> <unit>', the number possibly with thousands separators
IsNumberUnit(v, i) ==
    /\ v[i] = " "
    /\ IsDecimal(Remove(SubSeq(v, 1, i - 1), ","))
    /\ IsUnitToken(Tail0(v, i + 1))

\* C5: every '<number> <unit>' input converts by the unit table: ns /1000,
\* us and the micro sign as is, ms *1000, s *1,000,000, B as is, KB *1024,
\* MB *1024*1024, any other unit token the bare number (case-sensitive).
C5_UnitTable ==
    pc = "value_done" =>
        \A i \in 1..Len(val) :
            IsNumberUnit(val, i) =>
                /\ pv.ok
                /\ pv.v = Expected(DecimalOf(Remove(SubSeq(val, 1, i - 1), ",")),
                                   Tail0(val, i + 1))

\* '1 KB' has been parsed to 1 * 1024 and '500 ns' is in the input set
C5_Witness ==
    /\ pc = "value_done"
    /\ val = <<"1", " ", "K", "B">>
    /\ pv = [ok |-> TRUE, exc |-> "", v |-> [mant |-> 1, e10 |-> 0, e1024 |-> 1]]

\* the text starts with a decimal number, optional whitespace and a letter
StartsWithNumberUnit(v) ==
    \E a \in 1..Len(v) : \E b \in (a + 1)..Len(v) :
        /\ IsDecimal(SubSeq(v, 1, a))
        /\ \A k \in (a + 1)..(b - 1) : v[k] \in Whitespace
        /\ v[b] \in Letters

\* C4: parse_value never raises and returns a non-negative number, which is
\* 0.0 when the input is empty, a lone dash, or does not start with a number
\* followed by a unit token (a leading run such as '1.2.3' or '.' included).
C4_TotalZeroFallback ==
    pc = "value_done" =>
        /\ pv.ok
        /\ pv.v.mant >= 0
        /\ (val = <<>> \/ val = <<"-">> \/ ~StartsWithNumberUnit(Remove(val, ","))
                => pv.v = Zero)

----------------------------------------------------------------------------
(* Specification SpecLog: parse_benchmark_log applied to a missing file and *)
(* to every text of at most MaxLines lines drawn from LogLines              *)

Bar == <<"|">>
Sp == <<" ">>

LHeader == Bar \o Sp \o Method \o Sp \o Bar \o Sp \o Mean \o Sp \o Bar
LHeaderDash == Bar \o Sp \o Method \o Sp \o Bar \o Dashes \o Bar
LSep == Bar \o Dashes \o Bar \o Dashes \o Bar
LRow == Bar \o Sp \o <<"'", "N", ".", "A", " ", "B", " ", "C", "'">> \o Sp \o Bar
            \o Sp \o <<"1", " ", "m", "s">> \o Sp \o Bar
LShort == Bar \o Sp \o <<"A", " ", "B">> \o Sp \o Bar
LNoSpace == Bar \o Sp \o <<"X">> \o Sp \o Bar \o Sp \o <<"-">> \o Sp \o Bar
LBadNum == Bar \o Sp \o <<"C", " ", "D">> \o Sp \o Bar \o Sp \o <<".", " ", "s">> \o Sp \o Bar
LBlank == <<>>
LText == <<"e", "n", "d">>

LogLines == {LHeader, LHeaderDash, LSep, LRow, LShort, LNoSpace, LBadNum, LBlank, LText}

MissingFile == [exists |-> FALSE, content |-> <<>>]

LogFiles ==
    {MissingFile} \cup
    {[exists |-> TRUE, content |-> JoinLines(ls)] : ls \in SeqsUpTo(LogLines, MaxLines)}

InitLog ==
    /\ pc = "log_start"
    /\ file \in LogFiles
    /\ res = None
    /\ val = None /\ pv = None /\ afile = None /\ ares = None
    /\ inputs = None /\ df_kem = None /\ df_sig = None /\ df_art = None
    /\ charts = <<>> /\ console = <<>>

CallParseBenchmarkLog ==
    /\ pc = "log_start"
    /\ res' = parse_benchmark_log(file)
    /\ pc' = "log_done"
    /\ UNCHANGED <<val, pv, file, afile, ares, inputs, df_kem, df_sig, df_art, charts, console>>

NextLog == CallParseBenchmarkLog

SpecLog == InitLog /\ [][NextLog]_vars

(* What the claims say of a log text, read off the lines themselves *)

IsBlank(l) == \A k \in 1..Len(l) : l[k] \in Whitespace

IsPipeLine(l) == ~IsBlank(l) /\ l[SkipSet(l, 1, Whitespace)] = "|"

IsCollectable(l) == IsPipeLine(l) /\ ~Contains(l, Dashes)

InPicked(r, j) == \E k \in 1..Len(r.picked) : r.picked[k] = j

\* line b follows a collected line and is neither blank nor a pipe line
StopsAt(r, b) ==
    /\ ~IsBlank(r.lines[b])
    /\ ~IsPipeLine(r.lines[b])
    /\ \E a \in 1..(b - 1) : IsCollectable(r.lines[a])

\* C1 as stated: no collected line comes after a blank or non-pipe line that
\* follows a collected line.
C1_StopsAtBlankOrNonPipe ==
    pc = "log_done" =>
        \A j \in 1..Len(res.lines) : \A b \in 1..(j - 1) :
            (/\ IsBlank(res.lines[b]) \/ ~IsPipeLine(res.lines[b])
             /\ \E a \in 1..(b - 1) : InPicked(res, a))
                => ~InPicked(res, j)

\* C1 amended: collection stops at the first non-blank non-pipe line after a
\* collected line, and blank lines do not stop it: the table is exactly the
\* pipe lines without '---' that precede the first such line, in order.
C1_StopsAtNonPipeOnly ==
    pc = "log_done" =>
        /\ \A j \in 1..Len(res.lines) :
              InPicked(res, j) <=>
                  /\ IsCollectable(res.lines[j])
                  /\ \A b \in 1..(j - 1) : ~StopsAt(res, b)
        /\ \A k \in 1..(Len(res.picked) - 1) : res.picked[k] < res.picked[k + 1]
        /\ \A k \in 1..Len(res.picked) : res.table_lines[k] = Strip(res.lines[res.picked[k]])

\* a pipe line that follows a stopping line was left out of the table
C1_Witness ==
    /\ pc = "log_done"
    /\ \E b \in 1..Len(res.lines) : \E j \in (b + 1)..Len(res.lines) :
          StopsAt(res, b) /\ IsCollectable(res.lines[j]) /\ ~InPicked(res, j)

\* the text of line l between its outer pipes
Inner(l) == StripSet(l, {"|"})

BarsOf(l) == {k \in 1..Len(Inner(l)) : Inner(l)[k] = "|"}

FieldCount(l) == Cardinality(BarsOf(l)) + 1

\* the n-th field of line l, trimmed
Field(l, n) ==
    LET in == Inner(l)
        bar(m) == IF m = 0 THEN 0
                  ELSE IF m = FieldCount(l) THEN Len(in) + 1
                  ELSE CHOOSE k \in BarsOf(l) : Cardinality({i \in BarsOf(l) : i <= k}) = m
    IN  Strip(SubSeq(in, bar(n - 1) + 1, bar(n) - 1))

\* the collected lines after the first whose field count is the header's
AcceptedLines(r) ==
    {i \in 2..Len(r.table_lines) : FieldCount(r.table_lines[i]) = FieldCount(r.table_lines[1])}

\* the m-th accepted line
NthAccepted(r, m) ==
    CHOOSE i \in AcceptedLines(r) : Cardinality({k \in AcceptedLines(r) : k <= i}) = m

\* C2: with a header row (the first collected line), the extracted rows are
\* exactly the later collected lines whose field count is the header's, in
\* order, each mapping the header's trimmed names to the row's trimmed cells
\* (a name the header repeats keeps its last cell).
C2_ExtractedRows ==
    (pc = "log_done" /\ res.table_lines # <<>>) =>
        LET T == res.table_lines
            n == FieldCount(T[1])
        IN  /\ Len(res.data) = Cardinality(AcceptedLines(res))
            /\ \A m \in 1..Len(res.data) :
                  /\ DOMAIN res.data[m] = {Field(T[1], j) : j \in 1..n}
                  /\ \A j \in 1..n :
                        (\A k \in (j + 1)..n : Field(T[1], k) # Field(T[1], j))
                            => res.data[m][Field(T[1], j)] = Field(T[NthAccepted(res, m)], j)

\* a header, a matching row and a short row: one record, the short row dropped
C2_Witness ==
    /\ pc = "log_done"
    /\ file.exists
    /\ file.content = JoinLines(<<LHeader, LRow, LShort>>)
    /\ Len(res.data) = 1
    /\ res.data[1][Method] = <<"'", "N", ".", "A", " ", "B", " ", "C", "'">>
    /\ res.data[1][Mean] = <<"1", " ", "m", "s">>

\* the text after the last '.', apostrophes removed
CleanedLabel(raw) ==
    LET dots == {k \in 1..Len(raw) : raw[k] = "."}
        from == IF dots = {} THEN 1 ELSE (CHOOSE k \in dots : \A d \in dots : d <= k) + 1
        keep == {k \in from..Len(raw) : raw[k] # "'"}
    IN  [m \in 1..Cardinality(keep) |->
            raw[CHOOSE k \in keep : Cardinality({i \in keep : i <= k}) = m]]

HasSpace(x) == \E k \in 1..Len(x) : x[k] = " "

\* C3: whenever every accepted row's method label contains a space, the call
\* returns without raising, and the result is empty when the file is missing
\* or holds no header line.
C3_NeverRaises ==
    (/\ pc = "log_done"
     /\ \A i \in 1..Len(res.data) :
           Method \in DOMAIN res.data[i] => HasSpace(CleanedLabel(res.data[i][Method])))
        => /\ res.ok
           /\ (~file.exists \/ res.start = 0) => IsEmpty(res.df)

\* C10: in every returned record whose cleaned label contains a space, the
\* operation holds no space and algorithm + ' ' + operation is the cleaned label.
C10_LastSpaceSplit ==
    (pc = "log_done" /\ res.ok) =>
        /\ Len(res.df.rows) = Len(res.data)
        /\ \A i \in 1..Len(res.data) :
              LET label == CleanedLabel(res.data[i][Method])
                  row == res.df.rows[i]
              IN  HasSpace(label) =>
                      /\ ~HasSpace(row.Operation)
                      /\ row.Algorithm \o <<" ">> \o row.Operation = label
                      /\ row.cells[Method] = label

\* 'N.A B C' in apostrophes has given algorithm 'A B' and operation 'C'
C10_Witness ==
    /\ pc = "log_done"
    /\ res.ok
    /\ Len(res.df.rows) >= 1
    /\ res.data[1][Method] = <<"'", "N", ".", "A", " ", "B", " ", "C", "'">>
    /\ res.df.rows[1].Algorithm = <<"A", " ", "B">>
    /\ res.df.rows[1].Operation = <<"C">>

----------------------------------------------------------------------------
(* Specification SpecArt: parse_artifact_sizes applied to a missing file    *)
(* and to files of at most MaxPreLines leading lines and one record line of *)
(* at most MaxSegs segments                                                 *)

ArtSegs ==
    {<<" ", "P", "u", "b", "K", "e", "y", ":", " ", "1", "3", " ", "B", " ">>,
     <<" ", "P", "r", "i", "v", "K", "e", "y", ":", " ", "2", "5", " ", "B">>,
     <<" ", "S", "i", "g", ":", " ", "2", "4">>,
     <<" ", "C", "i", "p", "h", "e", "r", ":", " ", "7", " ", "B">>,
     <<" ", "F", "o", "o", ":", " ", "9">>,
     <<" ", "P", "u", "b", ":", " ", "n", "a">>,
     <<" ", "n", "o", "t", "e", " ">>,
     <<" ", "T", ":", " ", "1", ":", "2", " ">>}

ArtNames == {<<"D", "2", " ">>, <<"[", "T", "]", " ", "D", "2", " ">>}

ArtPreLines == {<<"-", "-", "-">>, <<>>, <<"K", "|", "S", "i", "g", ":", "5">>}

RECURSIVE JoinSegs(_)
JoinSegs(segs) == IF segs = <<>> THEN <<>> ELSE Bar \o Head(segs) \o JoinSegs(Tail(segs))

ArtFiles ==
    {[exists |-> FALSE, lines |-> <<>>]} \cup
    {[exists |-> TRUE, lines |-> pre \o <<name \o JoinSegs(segs)>>] :
        pre \in SeqsUpTo(ArtPreLines, MaxPreLines),
        name \in ArtNames,
        segs \in SeqsUpTo(ArtSegs, MaxSegs)}

InitArt ==
    /\ pc = "art_start"
    /\ afile \in ArtFiles
    /\ ares = None
    /\ val = None /\ pv = None /\ file = None /\ res = None
    /\ inputs = None /\ df_kem = None /\ df_sig = None /\ df_art = None
    /\ charts = <<>> /\ console = <<>>

CallParseArtifactSizes ==
    /\ pc = "art_start"
    /\ ares' = parse_artifact_sizes(afile)
    /\ pc' = "art_done"
    /\ UNCHANGED <<val, pv, file, res, afile, inputs, df_kem, df_sig, df_art, charts, console>>

NextArt == CallParseArtifactSizes

SpecArt == InitArt /\ [][NextArt]_vars

(* What the claims say of an artifact file, read off its lines *)

\* the lines that hold records: not blank, not starting with a dash
RecordLines(f) ==
    {i \in 1..Len(f.lines) : ~IsBlank(f.lines[i]) /\ f.lines[i][1] # "-"}

\* line i with its tags removed, split on pipes
PartsOf(f, i) == Split(Strip(RemoveTags(f.lines[i])), "|")

HasColon(p) == \E k \in 1..Len(p) : p[k] = ":"

\* the (line, segment) places after a first segment that hold a colon
ColonPlaces(f) ==
    {<<i, n>> \in (1..Len(f.lines)) \X (2..(MaxSegs + 2)) :
        i \in RecordLines(f) /\ n <= Len(PartsOf(f, i)) /\ HasColon(PartsOf(f, i)[n])}

Before(a, b) == a[1] < b[1] \/ (a[1] = b[1] /\ a[2] <= b[2])

\* the m-th such place in file order
NthPlace(f, m) ==
    CHOOSE a \in ColonPlaces(f) : Cardinality({b \in ColonPlaces(f) : Before(b, a)}) = m

\* the text of a segment after its first colon
ValueOf(p) == Tail0(p, (CHOOSE k \in 1..Len(p) : p[k] = ":" /\ \A i \in 1..(k - 1) : p[i] # ":") + 1)

\* the text of a segment before its first colon, trimmed
LabelOf(p) == Strip(SubSeq(p, 1, (CHOOSE k \in 1..Len(p) : p[k] = ":" /\ \A i \in 1..(k - 1) : p[i] # ":") - 1))

\* C8: the call does not raise, and its records are, in order, one for each
\* segment after the first that holds a colon, with the line's trimmed first
\* segment as algorithm and the first run of digits of the value as size.
C8_OneRecordPerColonSegment ==
    (pc = "art_done" /\ afile.exists) =>
        /\ ares.ok
        /\ Len(ares.data) = Cardinality(ColonPlaces(afile))
        /\ \A m \in 1..Len(ares.data) :
              LET at == NthPlace(afile, m)
                  parts == PartsOf(afile, at[1])
              IN  /\ ares.data[m].Algorithm = Strip(parts[1])
                  /\ FirstDigits(ValueOf(parts[at[2]])) # <<>>
                  /\ ares.data[m].Size = DigitsToInt(FirstDigits(ValueOf(parts[at[2]])))

FourTypes == {PublicKey, PrivateKey, Signature, Ciphertext}

\* C9 as stated: every record's type is one of the four names and its size
\* is a non-negative integer.
C9_TypeIsOneOfFour ==
    pc = "art_done" =>
        \A m \in 1..Len(ares.data) :
            ares.data[m].Type \in FourTypes /\ ares.data[m].Size \in Nat

\* C9 amended: every record's size is a non-negative integer and its type is
\* one of the four names or, failing that, the trimmed label of one of the
\* file's segments, a label that holds none of Pub, Priv, Sig, Cipher.
C9_TypeNormalizedOrLabel ==
    pc = "art_done" =>
        \A m \in 1..Len(ares.data) :
            LET t == ares.data[m].Type
            IN  /\ ares.data[m].Size \in Nat
                /\ \/ t \in FourTypes
                   \/ /\ \A tag \in {Pub, Priv, Sig, Cipher} : ~Contains(t, tag)
                      /\ \E at \in ColonPlaces(afile) :
                            LabelOf(PartsOf(afile, at[1])[at[2]]) = t

\* 'D2 | PubKey: 13 B | Foo: 9' has given (D2, Public Key, 13), (D2, Foo, 9)
C9_Witness ==
    /\ pc = "art_done"
    /\ ares.ok
    /\ ares.data = <<[Algorithm |-> <<"D", "2">>, Type |-> PublicKey, Size |-> 13],
                     [Algorithm |-> <<"D", "2">>, Type |-> <<"F", "o", "o">>, Size |-> 9]>>

----------------------------------------------------------------------------
(* Specification SpecMain: one run of main over every choice of the three   *)
(* input files from MainLogs and MainArts                                    *)

MHeader == LHeader \o Sp \o Allocated \o Sp \o Bar
MRowKeyGen == Bar \o Sp \o <<"A", " ", "K">> \o Sp \o Bar \o Sp \o <<"1", " ", "m", "s">> \o Sp
                  \o Bar \o Sp \o <<"1", " ", "K", "B">> \o Sp \o Bar
MRowVerify == Bar \o Sp \o <<"A", " ", "V">> \o Sp \o Bar \o Sp \o <<"2", " ", "u", "s">> \o Sp
                  \o Bar \o Sp \o <<"-">> \o Sp \o Bar

TextFile(ls) == [exists |-> TRUE, content |-> JoinLines(ls)]

FullLog == TextFile(<<LText, MHeader, LSep, MRowKeyGen, MRowVerify, LBlank, LText>>)

MainLogs ==
    {MissingFile,
     TextFile(<<LText>>),
     TextFile(<<MHeader, LSep>>),
     FullLog,
     TextFile(<<MHeader, LSep, MRowVerify>>),
     TextFile(<<LHeader, LSep, LRow>>)}

MainArts ==
    {[exists |-> FALSE, lines |-> <<>>],
     [exists |-> TRUE, lines |-> <<<<"-", "-", "-">>>>],
     [exists |-> TRUE, lines |-> <<<<"D", "2", " ", "|", " ", "P", "u", "b", "K", "e", "y", ":", " ", "1", "3", " ", "B">>>>],
     [exists |-> TRUE, lines |-> <<<<"D", "2", " ", "|", " ", "T", ":", " ", "1", ":", "2">>>>]}

InitMain ==
    /\ pc = "main_start"
    /\ inputs \in [kem : MainLogs, sig : MainLogs, art : MainArts]
    /\ df_kem = None /\ df_sig = None /\ df_art = None
    /\ charts = <<>> /\ console = <<>>
    /\ val = None /\ pv = None /\ file = None /\ res = None /\ afile = None /\ ares = None

NextMain ==
    \/ LoadKem
    \/ LoadSig
    \/ LoadArt
    \/ CheckTables
    \/ PlotKemTime
    \/ PlotKemMemory
    \/ PlotSigTime
    \/ PlotSigMemory
    \/ PlotArtifact

SpecMain == InitMain /\ [][NextMain]_vars

\* the three loads have all returned
AllLoaded == pc \in {"check", "kem_time", "kem_memory", "sig_time", "sig_memory",
                     "artifact", "returned"}
             \/ (pc = "crashed" /\ df_art # None /\ df_kem # None /\ df_sig # None)

Filenames == [k \in 1..Len(charts) |-> charts[k].filename]

\* C6: no chart is written unless both benchmark tables were loaded non-empty,
\* whatever the artifact data; with an empty table the run ends with the error
\* line and no chart.
C6_NoChartWithoutBothTables ==
    /\ charts # <<>> =>
          /\ df_kem # None /\ df_sig # None
          /\ ~IsEmpty(df_kem) /\ ~IsEmpty(df_sig)
    /\ (pc = "returned" /\ (IsEmpty(df_kem) \/ IsEmpty(df_sig))) =>
          /\ charts = <<>>
          /\ console # <<>>
          /\ console[Len(console)] = ErrorLine

\* the run has returned with the error line, the KEM table loaded and the
\* signature table empty, artifact records present, and no chart written
C6_Witness ==
    /\ pc = "returned"
    /\ ~IsEmpty(df_kem)
    /\ IsEmpty(df_sig)
    /\ ~IsEmpty(df_art)
    /\ charts = <<>>
    /\ console[Len(console)] = ErrorLine

FourCharts == <<"kem_execution_time.png", "kem_memory.png", "sig_execution_time.png",
                "sig_memory.png">>

\* C7: once the three inputs are loaded with both benchmark tables non-empty,
\* the run returns without a crash having written, in order, the KEM time,
\* KEM memory, signature time and signature memory charts (the last from the
\* records with more than 10 bytes allocated), then the artifact chart if and
\* only if there are artifact records; with the artifact file absent these
\* are exactly four charts and the warning was printed.
C7_ChartsInOrder ==
    (AllLoaded /\ ~IsEmpty(df_kem) /\ ~IsEmpty(df_sig)) =>
        /\ pc # "crashed"
        /\ \A k \in 1..Len(charts) : (k <= 4 => charts[k].filename = FourCharts[k])
        /\ (Len(charts) >= 4 =>
              \A i \in 1..Len(charts[4].rows) : GreaterThan10(charts[4].rows[i].Allocated_B))
        /\ (pc = "returned" =>
              /\ Filenames = FourCharts \o (IF IsEmpty(df_art) THEN <<>> ELSE <<"artifact_sizes.png">>)
              /\ (~inputs.art.exists =>
                    /\ Len(charts) = 4
                    /\ \E k \in 1..Len(console) : console[k] = Warning("art_log")))

====
